---- MODULE Spec2Model ----
(***************************************************************************)
(* Model of setup_project.py: the scaffold generator (create_file,         *)
(* create_directory_structure, main) and the external-command wrapper      *)
(* (run_command, print_precommit_install_instructions).                    *)
(*                                                                         *)
(* Text is a sequence of chunks (strings).  A path segment is text, a path *)
(* is a sequence of segments, the filesystem is a function from the        *)
(* absolute paths that exist to their entries.  Long literal bodies of the *)
(* source are abbreviated to one chunk each; the placeholders, the line    *)
(* breaks and the indentation that the code acts on are kept as chunks.    *)
(***************************************************************************)
EXTENDS Integers, Sequences, FiniteSets, TLC

\* ------------------------------------------------------------------ bounds
MaxRuns == 2        \* runs of main() over the same directory
MaxPre == 2         \* entries present in the directory before the first run

\* -------------------------------------------------------------- text, paths
NL == "\n"
IND == "    "
SEP == "/"
UP == <<"..">>
PH_NAME == "{project_name}"

Range(s) == {s[i] : i \in 1..Len(s)}

\* a literal one-chunk path segment
S(str) == <<str>>

\* the characters after the first separator chunk at or after position i
RECURSIVE SplitFrom(_, _, _)
SplitFrom(name, i, cur) ==
    IF i > Len(name) THEN <<cur>>
    ELSE IF name[i] = SEP THEN <<cur>> \o SplitFrom(name, i + 1, <<>>)
    ELSE SplitFrom(name, i + 1, Append(cur, name[i]))

\* pathlib drops empty segments and "." segments when it parses a string
PathParts(name) ==
    SelectSeq(SplitFrom(name, 1, <<>>), LAMBDA seg : seg # <<>> /\ seg # <<".">>)

IsAbsolute(name) == Len(name) > 0 /\ name[1] = SEP

\* base / name : an absolute right operand replaces the left one
Join(base, name) ==
    IF IsAbsolute(name) THEN PathParts(name) ELSE base \o PathParts(name)

Parent(path) == SubSeq(path, 1, Len(path) - 1)

\* ------------------------------------------------------------ text helpers
Whitespace == {NL, IND, " "}

RECURSIVE LStrip(_)
LStrip(t) == IF t # <<>> /\ Head(t) \in Whitespace THEN LStrip(Tail(t)) ELSE t

RECURSIVE RStrip(_)
RStrip(t) ==
    IF t # <<>> /\ t[Len(t)] \in Whitespace THEN RStrip(SubSeq(t, 1, Len(t) - 1)) ELSE t

\* str.strip()
Strip(t) == RStrip(LStrip(t))

\* the lines of a text, split at its line-break chunks
RECURSIVE LinesFrom(_, _, _)
LinesFrom(t, i, cur) ==
    IF i > Len(t) THEN <<cur>>
    ELSE IF t[i] = NL THEN <<cur>> \o LinesFrom(t, i + 1, <<>>)
    ELSE LinesFrom(t, i + 1, Append(cur, t[i]))

RECURSIVE Indent(_)
Indent(line) == IF line # <<>> /\ Head(line) = IND THEN 1 + Indent(Tail(line)) ELSE 0

IsBlank(line) == \A i \in 1..Len(line) : line[i] \in {IND, " "}

RECURSIVE JoinLines(_)
JoinLines(ls) ==
    IF Len(ls) = 0 THEN <<>>
    ELSE IF Len(ls) = 1 THEN ls[1]
    ELSE ls[1] \o <<NL>> \o JoinLines(Tail(ls))

\* textwrap.dedent: removes the indentation common to all non-blank lines
\* and empties the blank ones
Dedent(t) ==
    LET ls == LinesFrom(t, 1, <<>>)
        solid == {i \in 1..Len(ls) : ~IsBlank(ls[i])}
        margin == IF solid = {} THEN 0
                  ELSE CHOOSE m \in {Indent(ls[i]) : i \in solid} :
                           \A i \in solid : m <= Indent(ls[i])
    IN JoinLines([i \in 1..Len(ls) |->
                     IF IsBlank(ls[i]) THEN <<>>
                     ELSE SubSeq(ls[i], margin + 1, Len(ls[i]))])

\* evaluation of an f-string: every {placeholder} chunk that the context
\* binds is replaced by its value
RECURSIVE Render(_, _)
Render(t, ctx) ==
    IF t = <<>> THEN <<>>
    ELSE (IF Head(t) \in DOMAIN ctx THEN ctx[Head(t)] ELSE <<Head(t)>>) \o Render(Tail(t), ctx)

Placeholders == {PH_NAME, "{DEFAULT_PYTHON_VERSION}", "{py_major_minor}", "{py_short_ver}"}

HasPlaceholder(t) == \E i \in 1..Len(t) : t[i] \in Placeholders


\* ------------------------------------------------------------- filesystem
Dir == [kind |-> "dir", content |-> <<>>]
File(content) == [kind |-> "file", content |-> content]

Exists(f, phys) == phys \in DOMAIN f
IsDirAt(f, phys) == phys \in DOMAIN f /\ f[phys].kind = "dir"
IsFileAt(f, phys) == phys \in DOMAIN f /\ f[phys].kind = "file"

Put(f, phys, entry) ==
    IF phys \in DOMAIN f THEN [f EXCEPT ![phys] = entry] ELSE (phys :> entry) @@ f

\* The kernel's path walk: every segment but the last must name an existing
\* directory; ".." steps to the parent.  Result: ok and the physical path.
RECURSIVE Walk(_, _, _, _)
Walk(f, path, i, cur) ==
    IF i > Len(path) THEN [ok |-> TRUE, phys |-> cur]
    ELSE IF ~IsDirAt(f, cur) THEN [ok |-> FALSE, phys |-> cur]
    ELSE IF path[i] = UP
         THEN Walk(f, path, i + 1, IF cur = <<>> THEN cur ELSE Parent(cur))
         ELSE Walk(f, path, i + 1, Append(cur, path[i]))

Resolve(f, path) == Walk(f, path, 1, <<>>)

PathExists(f, path) == LET r == Resolve(f, path) IN r.ok /\ Exists(f, r.phys)
PathIsDir(f, path) == LET r == Resolve(f, path) IN r.ok /\ IsDirAt(f, r.phys)

\* Path.mkdir(parents=True, exist_ok=True): creates the missing directories
\* left to right; fails, keeping what it has created, at a segment that
\* exists and is not a directory.
RECURSIVE MkdirFrom(_, _, _, _)
MkdirFrom(f, path, i, cur) ==
    IF i > Len(path) THEN [ok |-> TRUE, fs |-> f]
    ELSE IF path[i] = UP
         THEN MkdirFrom(f, path, i + 1, IF cur = <<>> THEN cur ELSE Parent(cur))
         ELSE LET nxt == Append(cur, path[i]) IN
              IF IsFileAt(f, nxt) THEN [ok |-> FALSE, fs |-> f]
              ELSE IF IsDirAt(f, nxt) THEN MkdirFrom(f, path, i + 1, nxt)
              ELSE MkdirFrom(Put(f, nxt, Dir), path, i + 1, nxt)

MkdirExclusive(f, path) ==
    IF PathExists(f, path) THEN [ok |-> FALSE, fs |-> f] ELSE MkdirFrom(f, path, 1, <<>>)

Mkdir(f, path) == MkdirFrom(f, path, 1, <<>>)

\* Path.write_text(content): open(path, "w") truncates an existing file or
\* creates a new one; it fails when the parent is not a directory or the
\* target is a directory.
WriteTextAppend(f, path, content) ==
    LET r == Resolve(f, path) IN
    IF ~r.ok \/ IsDirAt(f, r.phys) \/ ~IsDirAt(f, Parent(r.phys)) \/ r.phys = <<>>
    THEN [ok |-> FALSE, fs |-> f]
    ELSE [ok |-> TRUE,
          fs |-> Put(f, r.phys,
                     File((IF IsFileAt(f, r.phys) THEN f[r.phys].content ELSE <<>>) \o content))]

WriteText(f, path, content) ==
    LET r == Resolve(f, path) IN
    IF ~r.ok \/ IsDirAt(f, r.phys) \/ ~IsDirAt(f, Parent(r.phys)) \/ r.phys = <<>>
    THEN [ok |-> FALSE, fs |-> f]
    ELSE [ok |-> TRUE, fs |-> Put(f, r.phys, File(content))]

\* Path.touch(exist_ok=True): an existing entry keeps its content
Touch(f, path) ==
    LET r == Resolve(f, path) IN
    IF ~r.ok \/ r.phys = <<>> THEN [ok |-> FALSE, fs |-> f]
    ELSE IF Exists(f, r.phys) THEN [ok |-> TRUE, fs |-> f]
    ELSE IF ~IsDirAt(f, Parent(r.phys)) THEN [ok |-> FALSE, fs |-> f]
    ELSE [ok |-> TRUE, fs |-> Put(f, r.phys, File(<<>>))]

\* --------------------------------------------------- the declarative tree
\* a key of the structure dict whose value is a dict / a string
D(name, children) == [name |-> name, isdict |-> TRUE, children |-> children, body |-> <<>>]
L(name, body) == [name |-> name, isdict |-> FALSE, children |-> <<>>, body |-> body]

\* the dict literal of create_directory_structure, in insertion order
Structure(project_name) == <<
  D(S("src"), <<
    D(project_name, <<
      D(S("feature_name"), <<
        D(S("01_config"), <<
          L(S("README.md"), <<"Configuration files and settings for the feature">>),
          L(S("container.py"), <<"from enum import Enum ... return Injector([ApplicationModule()])">>),
          L(S("logging_config.py"), <<"from loguru import logger ... {time:YYYY-MM-DD HH:mm:ss.SSS} ... )">>) >>),
        D(S("02_io"), <<
          D(S("presentation"), <<
            D(S("components"), <<
              L(S("README.md"), <<"Reusable UI components">>),
              L(S("custom_button.py"), <<NL, "class CustomButton(QPushButton): ...", NL>>) >>),
            D(S("navigation"), <<
              L(S("README.md"), <<"Navigation related components">>),
              L(S("navigation_mediator.py"), <<NL, "class NavigationMediatorImpl(QObject): ...", NL>>) >>),
            D(S("screens"), <<
              D(S("main_screen"), <<
                L(S("README.md"), <<"Main screen components">>),
                L(S("main_screen.py"), <<NL, "class MainScreen(QWidget): ...", NL>>) >>),
              D(S("secondary_screen"), <<
                L(S("README.md"), <<"Secondary screen components">>),
                L(S("secondary_screen.py"), <<NL, "class SecondaryScreen(QWidget): ...", NL>>) >>),
              L(S("main_window.py"), <<NL, "class MainWindow(QMainWindow): ...", NL>>) >>) >>),
          L(S("services"), <<"External service integrations and adapters">>) >>),
        L(S("03_application"), <<"Application use cases and business logic">>),
        L(S("04_domain"), <<"Domain models, entities, and value objects">>) >>) >>) >>),
  D(S("tests"), <<
    L(S("01_config"), <<"Tests for configuration and settings">>),
    D(S("02_io"), <<
      D(S("presentation"), <<
        L(S("components"), <<"Tests for UI components">>),
        D(S("screens"), <<
          L(S("view_name"), <<"Tests for ViewModels, Views, and Models">>) >>) >>),
      L(S("services"), <<"Tests for service integrations">>) >>),
    L(S("03_application"), <<"Tests for application use cases">>),
    L(S("04_domain"), <<"Tests for domain models and business rules">>) >>) >>

\* The iterations of "for name, content in structure.items()" in the order
\* the recursion of create_dirs_and_readme performs them: each carries the
\* current_path of the iteration.
RECURSIVE Iterations(_, _)
Iterations(base_path, structure) ==
    IF structure = <<>> THEN <<>>
    ELSE LET node == Head(structure)
             current_path == Join(base_path, node.name)
         IN  <<[current_path |-> current_path, name |-> node.name,
                isdict |-> node.isdict, content |-> node.body]>>
             \o (IF node.isdict THEN Iterations(current_path, node.children) ELSE <<>>)
             \o Iterations(base_path, Tail(structure))

\* one iteration of the loop of create_dirs_and_readme: mkdir, then the
\* README.md of a string value.  ok is FALSE when an exception is raised.
ReadmeContent(name, content) == <<"# ">> \o name \o <<NL, NL>> \o content

DirsAndReadmeStep(f, it) ==
    LET m == Mkdir(f, it.current_path) IN
    IF ~m.ok THEN m
    ELSE IF it.isdict THEN m
    ELSE WriteText(m.fs, Append(it.current_path, S("README.md")),
                   ReadmeContent(it.name, it.content))

\* create_file: never raises; reports an error and leaves the target as it
\* was when the mkdir or the write fails
CreateFileContent(content) == Dedent(Strip(content) \o <<NL>>)

create_file(f, path, content) ==
    LET m == Mkdir(f, Parent(path)) IN
    IF ~m.ok THEN [ok |-> FALSE, fs |-> m.fs]
    ELSE WriteText(m.fs, path, CreateFileContent(content))

\* ------------------------------------------------------ templates of main
DEFAULT_PYTHON_VERSION == <<">=", "3", ".", "9">>

Replace(t, old, new) == [i \in 1..Len(t) |-> IF t[i] = old THEN new ELSE t[i]]
Remove(t, old) == SelectSeq(t, LAMBDA ch : ch # old)

\* str.lower() on the chunks that occur in directory names
Lower(ch) == CASE ch = "My" -> "my" [] ch = "Proj" -> "proj" [] OTHER -> ch
LowerText(t) == [i \in 1..Len(t) |-> Lower(t[i])]

\* DEFAULT_PYTHON_VERSION.replace('>=','').split('.')[0] and [1]
py_major_minor ==
    LET parts == SplitFrom(Replace(Remove(DEFAULT_PYTHON_VERSION, ">="), ".", SEP), 1, <<>>)
    IN  parts[1] \o <<".">> \o parts[2]
py_short_ver == <<"py">> \o Remove(py_major_minor, ".")

\* the names an f-string of main can see
Context(project_name) ==
    (PH_NAME :> project_name) @@ ("{DEFAULT_PYTHON_VERSION}" :> DEFAULT_PYTHON_VERSION)
    @@ ("{py_major_minor}" :> py_major_minor) @@ ("{py_short_ver}" :> py_short_ver)

\* a plain string literal: no substitution takes place
entry_point_content == <<
    NL, "#!/usr/bin/env python3", NL, NL,
    "from src.", PH_NAME, ".feature_name.01_config.logging_config import setup_logging", NL,
    "from src.", PH_NAME, ".feature_name.02_io.presentation.screens.main_window import MainWindow", NL, NL,
    "def main():", NL, IND, "sys.exit(app.exec())", NL, NL,
    "if __name__ == '__main__':", NL, IND, "main()", NL >>

pyproject_template == <<
    NL, "[build-system] ...", NL, "[project]", NL,
    "name = '", PH_NAME, "'", NL,
    "requires-python = '", "{DEFAULT_PYTHON_VERSION}", "'", NL,
    "Programming Language :: Python :: ", "{py_major_minor}", NL,
    "Homepage = 'https://github.com/your_username/", PH_NAME, "'", NL,
    "Issues = 'https://github.com/your_username/", PH_NAME, "/issues'", NL,
    "target-version = '", "{py_short_ver}", "'", NL,
    "python_version = '", "{py_major_minor}", "'", NL >>

pre_commit_content == <<
    NL, IND, "# See https://pre-commit.com for more information", NL,
    IND, "ci:", NL, IND, IND, "autofix_commit_msg: ...", NL, NL,
    IND, "repos: ...", NL, IND >>

docs_readme_template == <<
    NL, IND, "# Documentation for ", PH_NAME, NL, NL,
    IND, "This directory contains documentation for the ", PH_NAME, " project.", NL, NL,
    IND, "1.  Prerequisites:", NL,
    IND, IND, "Python (", "{DEFAULT_PYTHON_VERSION}", " or newer)", NL,
    IND, IND, "# cd ", PH_NAME, NL,
    IND, "Packages appear in the dist/ directory.", NL, IND >>

root_readme_template == <<"# ", PH_NAME, NL, NL, "TODO: Project description">>

gitignore_content == <<
    NL, IND, IND, "# Byte-compiled / optimized / DLL files", NL,
    IND, IND, "__pycache__/", NL, NL,
    IND, IND, "Thumbs.db", NL, IND, IND >>

\* --------------------------------------------------------------- the host
ROOT_NAME == <<"My", "-", "Proj">>
project_root == <<ROOT_NAME>>           \* Path.cwd()

default_project_name == Replace(Replace(LowerText(ROOT_NAME), " ", "_"), "-", "_")

\* what input() can return
ProjectNameInputs ==
    { <<>>, <<"demo_app">>, <<"..", SEP, "..", SEP, "outside">> }

RootReadme == Append(project_root, S("README.md"))
RootGitignore == Append(project_root, S(".gitignore"))
GitDir == Append(project_root, S(".git"))
EntryPointPath(project_name) ==
    Append(Join(Append(project_root, S("src")), project_name), S("main.py"))

EmptyTarget == (<<>> :> Dir) @@ (project_root :> Dir)

\* what the target directory may hold before the first run
PreOptions == <<
    [path |-> RootReadme, entry |-> File(<<"user readme">>)],
    [path |-> RootGitignore, entry |-> File(<<"user ignore">>)],
    [path |-> GitDir, entry |-> Dir],
    [path |-> project_root \o <<S("tests"), S("02_io")>>, entry |-> File(<<"user file named 02_io">>)],
    [path |-> Append(project_root, S("pyproject.toml")), entry |-> Dir],
    [path |-> project_root \o <<S("tests"), S("01_config"), S("notes.txt")>>, entry |-> File(<<"user notes">>)] >>

RECURSIVE Populate(_, _, _)
Populate(f, sel, i) ==
    IF i > Len(PreOptions) THEN f
    ELSE IF i \notin sel THEN Populate(f, sel, i + 1)
    ELSE Populate(Put(Mkdir(f, Parent(PreOptions[i].path)).fs, PreOptions[i].path, PreOptions[i].entry),
                  sel, i + 1)

\* ------------------------------------------------------- external commands
Systems == {"Windows", "Linux", "Darwin", "Java"}      \* platform.system()

\* how subprocess.check_call(["python", "--version"]) can end
Probes == {"zero", "nonzero", "not_found", "os_error"}

\* how subprocess.run can end: the launch fails, or the process exits with rc
Launches == {"no_executable", "no_cwd", "os_error", "ran"}
ExitCodes == {0, 1, 2}
\* what a process that ran has written to its stdout and to its stderr
Streams == {"", "text"}
Behaviours ==
    [launch : Launches \ {"ran"}, rc : {0}, stdout : {""}, stderr : {""}]
    \cup [launch : {"ran"}, rc : ExitCodes, stdout : Streams, stderr : Streams]

\* the platform families the branches of the instructions tell apart
IsUnix(system) == system \in {"Linux", "Darwin"}

\* the instructions run "python --version" on Linux and Darwin only
ProbeLaunched(system) == IsUnix(system)

\* print_precommit_install_instructions: the blocks it prints, in order, and
\* whether the probe of the interpreter raised out of it
print_precommit_install_instructions(system, probe) ==
    LET unix == IsUnix(system)
        scripts_subdir == IF unix THEN "bin" ELSE "Scripts"
        find_python_cmd == IF system = "Windows" THEN "where.exe python"
                           ELSE IF unix THEN "which python3" ELSE ""
        raised == ProbeLaunched(system) /\ probe \in {"nonzero", "os_error"}
        header == <<"INSTALLING PRE-COMMIT">>
        plan == << "STEP 1", "1a:find", find_python_cmd, "1a:subdir", scripts_subdir,
                   IF system = "Windows" THEN "1b:environment-variables"
                   ELSE IF unix THEN "1b:shell-config" ELSE "1b:consult-os-docs",
                   IF system = "Windows" THEN "1c:as-administrator" ELSE "1c:sudo",
                   "STEP 2", "STEP 3", "STEP 4" >>
    IN  [raised |-> raised, lines |-> IF raised THEN header ELSE header \o plan]

\* the second component of the returned pair: None, the CompletedProcess,
\* the CalledProcessError or another exception object
NoResult == [type |-> "None", returncode |-> -1, stdout |-> "absent", stderr |-> "absent"]

CompletedProcess(beh) ==
    [type |-> "CompletedProcess", returncode |-> beh.rc, stdout |-> beh.stdout, stderr |-> beh.stderr]

CalledProcessErrorNoCode(beh) ==
    [type |-> "CalledProcessError", returncode |-> 1, stdout |-> beh.stdout, stderr |-> beh.stderr]

CalledProcessError(beh) ==
    [type |-> "CalledProcessError", returncode |-> beh.rc, stdout |-> beh.stdout, stderr |-> beh.stderr]

\* subprocess.run(check=check) raises CalledProcessError for a non-zero
\* exit status only when check is true
CheckFailsAlways(check, rc) == rc # 0

CheckFails(check, rc) == check /\ rc # 0

\* the FileNotFoundError handler of run_command
NotFoundHandler(command, system, probe) ==
    LET head == <<"Error: Command not found", "usually means not installed or not in PATH">> IN
    IF command[1] = "pre-commit"
    THEN LET adv == print_precommit_install_instructions(system, probe) IN
         [raised |-> adv.raised, success |-> FALSE, result |-> NoResult,
          out |-> head \o adv.lines]
    ELSE IF command[1] = "git"
    THEN [raised |-> FALSE, success |-> FALSE, result |-> NoResult,
          out |-> Append(head, "Error: Git command not found")]
    ELSE [raised |-> FALSE, success |-> FALSE, result |-> NoResult, out |-> head]

\* run_command(command, cwd, check): raised is TRUE when an exception leaves
\* the function, otherwise (success, result) is what it returns
run_command(command, check, beh, system, probe) ==
    IF beh.launch \in {"no_executable", "no_cwd"}
    THEN NotFoundHandler(command, system, probe)
    ELSE IF beh.launch = "os_error"
    THEN [raised |-> FALSE, success |-> FALSE,
          result |-> [type |-> "Exception", returncode |-> -1, stdout |-> "absent", stderr |-> "absent"],
          out |-> <<"An unexpected error occurred">>]
    ELSE IF CheckFails(check, beh.rc)
    THEN [raised |-> FALSE, success |-> FALSE,
          result |-> CalledProcessError(beh),
          out |-> <<"Error running command", "Return code", "Stdout", "Stderr">>]
    ELSE [raised |-> FALSE, success |-> TRUE,
          result |-> CompletedProcess(beh),
          out |-> <<>>]

\* the CommandOutcome kind a caller reads off the returned pair
FailureKind(r) ==
    IF r.success THEN "None"
    ELSE IF r.result.type = "None" THEN "ExecutableNotFound"
    ELSE IF r.result.type = "CalledProcessError" THEN "NonZeroExit"
    ELSE "Unexpected"

\* ------------------------------------------------------------------ state
VARIABLES
    fs,             \* the filesystem
    pc,             \* where main() is
    run,            \* runs of main() started so far
    project_name,   \* main's project_name
    git_initialized_successfully,
    is_git_repo,
    calls,          \* this run's filesystem operations, in order
    cmds,           \* this run's external commands and their outcomes, in order
    out,            \* this run's reports on stdout/stderr
    emptyAtStart,   \* history: the target directory was empty when this run started
    prev_name,      \* history: project_name of the run before this one
    git_inited,     \* history: a "git init" of this or an earlier run has succeeded
    rc_in,          \* a direct call of run_command: its arguments and host
    rc_out          \* and what it produced

vars == <<fs, pc, run, project_name, git_initialized_successfully, is_git_repo,
          calls, cmds, out, emptyAtStart, prev_name, git_inited, rc_in, rc_out>>

NoCall == [command |-> <<"none">>, check |-> FALSE,
           beh |-> [launch |-> "ran", rc |-> 0, stdout |-> "", stderr |-> ""],
           system |-> "unknown", probe |-> "zero"]
NoOutcome == [raised |-> FALSE, success |-> FALSE, result |-> NoResult, out |-> <<>>]

Its == Iterations(project_root, Structure(project_name))

Init ==
    /\ \E sel \in SUBSET (1..Len(PreOptions)) :
          /\ Cardinality(sel) <= MaxPre
          /\ fs = Populate(EmptyTarget, sel, 1)
    /\ pc = "idle"
    /\ run = 0
    /\ project_name = <<>>
    /\ git_initialized_successfully = FALSE
    /\ is_git_repo = FALSE
    /\ calls = <<>>
    /\ cmds = <<>>
    /\ out = <<>>
    /\ emptyAtStart = (fs = EmptyTarget)
    /\ prev_name = <<>>
    /\ git_inited = FALSE
    /\ rc_in = NoCall
    /\ rc_out = NoOutcome

\* a logged filesystem operation; unbound: the body handed over still holds
\* a placeholder
Call(op, path, content, ok) ==
    [op |-> op, path |-> path, unbound |-> HasPlaceholder(content), ok |-> ok]

\* main, lines 457-466: the name is read, the run begins
StartRun ==
    /\ pc \in {"idle", "done", "crashed"}
    /\ run < MaxRuns
    /\ \E project_name_input \in ProjectNameInputs :
          project_name' = IF project_name_input # <<>> THEN project_name_input
                          ELSE default_project_name
    /\ run' = run + 1
    /\ pc' = "tree"
    /\ git_initialized_successfully' = FALSE
    /\ is_git_repo' = FALSE
    /\ calls' = <<>>
    /\ cmds' = <<>>
    /\ out' = <<"Setting up project">>
    /\ emptyAtStart' = (fs = EmptyTarget)
    /\ prev_name' = project_name
    /\ UNCHANGED <<fs, git_inited, rc_in, rc_out>>

\* create_dirs_and_readme over the iterations from i on: it stops at the
\* first iteration whose mkdir or write_text raises
RECURSIVE create_dirs_and_readme(_, _, _)
create_dirs_and_readme(st, its, i) ==
    IF i > Len(its) THEN [ok |-> TRUE, fs |-> st.fs, calls |-> st.calls]
    ELSE LET r == DirsAndReadmeStep(st.fs, its[i])
             log == Append(st.calls, Call("tree", its[i].current_path, its[i].content, r.ok))
         IN  IF r.ok THEN create_dirs_and_readme([fs |-> r.fs, calls |-> log], its, i + 1)
             ELSE [ok |-> FALSE, fs |-> r.fs, calls |-> log]

\* main, line 469: create_directory_structure; an exception of mkdir or
\* write_text is caught nowhere and ends the run
CreateDirectoryStructure ==
    /\ pc = "tree"
    /\ LET r == create_dirs_and_readme([fs |-> fs, calls |-> calls], Its, 1)
       IN  /\ fs' = r.fs
           /\ calls' = r.calls
           /\ pc' = IF r.ok THEN "entry" ELSE "crashed"
           /\ out' = IF r.ok THEN out ELSE Append(out, "Traceback")
    /\ UNCHANGED <<run, project_name, git_initialized_successfully, is_git_repo,
                   cmds, emptyAtStart, prev_name, git_inited, rc_in, rc_out>>

\* a create_file call inside an action: new fs, calls and out
DoCreateFile(st, path, content) ==
    LET r == create_file(st.fs, path, content) IN
    [fs |-> r.fs,
     calls |-> Append(st.calls, Call("create_file", path, content, r.ok)),
     out |-> Append(st.out, IF r.ok THEN "Created" ELSE "Error writing file")]

Here == [fs |-> fs, calls |-> calls, out |-> out]

\* main, lines 472-503
CreateEntryPoint ==
    /\ pc = "entry"
    /\ LET st == DoCreateFile(Here, EntryPointPath(project_name), entry_point_content)
       IN  fs' = st.fs /\ calls' = st.calls /\ out' = st.out
    /\ pc' = "dirs"
    /\ UNCHANGED <<run, project_name, git_initialized_successfully, is_git_repo,
                   cmds, emptyAtStart, prev_name, git_inited, rc_in, rc_out>>

\* one pass of the loop over dirs_to_create; OSError is caught
EnsureDir(st, dir_path, is_tests) ==
    LET m == Mkdir(st.fs, dir_path)
        t == IF m.ok /\ is_tests THEN Touch(m.fs, Append(dir_path, S("__init__.py")))
             ELSE [ok |-> m.ok, fs |-> m.fs]
    IN  [fs |-> t.fs,
         calls |-> Append(st.calls, Call("mkdir", dir_path, <<>>, t.ok)),
         out |-> IF m.ok
                 THEN (IF t.ok THEN Append(st.out, "Ensured directory exists")
                       ELSE st.out \o <<"Ensured directory exists", "Error creating directory">>)
                 ELSE Append(st.out, "Error creating directory")]

\* main, lines 764-777
CreateDirs ==
    /\ pc = "dirs"
    /\ LET st == EnsureDir(EnsureDir(Here, Append(project_root, S("tests")), TRUE),
                           Append(project_root, S("docs")), FALSE)
       IN  fs' = st.fs /\ calls' = st.calls /\ out' = st.out
    /\ pc' = "files"
    /\ UNCHANGED <<run, project_name, git_initialized_successfully, is_git_repo,
                   cmds, emptyAtStart, prev_name, git_inited, rc_in, rc_out>>

\* main, lines 784-786
CreateConfigFiles ==
    /\ pc = "files"
    /\ LET ctx == Context(project_name)
           a == DoCreateFile(Here, Append(project_root, S("pyproject.toml")),
                             Render(pyproject_template, ctx))
           b == DoCreateFile(a, Append(project_root, S(".pre-commit-config.yaml")),
                             pre_commit_content)
           c == DoCreateFile(b, project_root \o <<S("docs"), S("README.md")>>,
                             Render(docs_readme_template, ctx))
       IN  fs' = c.fs /\ calls' = c.calls /\ out' = c.out
    /\ pc' = "root"
    /\ UNCHANGED <<run, project_name, git_initialized_successfully, is_git_repo,
                   cmds, emptyAtStart, prev_name, git_inited, rc_in, rc_out>>

\* a root artifact is written only when nothing exists at its path
WriteIfAbsentAlways(st, path, content) == DoCreateFile(st, path, content)

WriteIfAbsent(st, path, content) ==
    IF ~PathExists(st.fs, path) THEN DoCreateFile(st, path, content) ELSE st

\* main, lines 788-873
CreateRootFiles ==
    /\ pc = "root"
    /\ LET a == WriteIfAbsent(Here, RootReadme,
                              Render(root_readme_template, Context(project_name)))
           b == WriteIfAbsent(a, RootGitignore, gitignore_content)
       IN  fs' = b.fs /\ calls' = b.calls /\ out' = b.out
    /\ pc' = "git"
    /\ UNCHANGED <<run, project_name, git_initialized_successfully, is_git_repo,
                   cmds, emptyAtStart, prev_name, git_inited, rc_in, rc_out>>

\* what subprocess.run can do when main calls it: the working directory is
\* the project root, which is missing only if the filesystem says so.  main
\* never reads the captured streams of a result, so one stream content
\* stands for all.
MainBehaviours ==
    {b \in Behaviours : /\ b.launch = "no_cwd" => ~PathIsDir(fs, project_root)
                         /\ b.stdout = "" /\ b.stderr = ""}

\* run_command reads the platform and probes the interpreter only for a
\* missing "pre-commit"; otherwise every host gives the same result
AnySystem == CHOOSE sys \in Systems : TRUE
AnyProbe == CHOOSE probe \in Probes : TRUE

HostIsRead(command, beh) ==
    command[1] = "pre-commit" /\ beh.launch \in {"no_executable", "no_cwd"}

Cmd(command, r) == [command |-> command, raised |-> r.raised,
                    kind |-> IF r.raised THEN "raised" ELSE FailureKind(r)]

\* the guard of the hook installation
HooksAllowedAlways(flag) == TRUE

HooksAllowed(flag) == flag

\* (project_root / ".git").is_dir()
IsGitRepoNever(f) == FALSE

IsGitRepo(f) == PathIsDir(f, GitDir)

\* main, lines 878-891: "git init" unless .git is a directory.  A git that
\* exits with 0 has created the .git directory.
GitInit ==
    /\ pc = "git"
    /\ is_git_repo' = IsGitRepo(fs)
    /\ IF ~is_git_repo'
       THEN \E beh \in MainBehaviours :
               LET r == run_command(<<"git", "init">>, TRUE, beh, AnySystem, AnyProbe) IN
               /\ cmds' = Append(cmds, Cmd(<<"git", "init">>, r))
               /\ git_initialized_successfully' = r.success
               /\ git_inited' = (git_inited \/ r.success)
               /\ fs' = IF r.success THEN Mkdir(fs, GitDir).fs ELSE fs
               /\ out' = out \o <<"Initializing Git repository...">> \o r.out
                             \o (IF r.success THEN <<>> ELSE <<"Warning: Failed to initialize Git.">>)
       ELSE /\ git_initialized_successfully' = TRUE
            /\ out' = Append(out, "Git repository already exists.")
            /\ UNCHANGED <<cmds, fs, git_inited>>
    /\ pc' = "hooks"
    /\ UNCHANGED <<run, project_name, calls, emptyAtStart, prev_name, rc_in, rc_out>>

\* main, lines 894-904: "pre-commit install"; the platform and the probe of
\* the interpreter are read only by the not-found handler
PreCommitInstall ==
    /\ pc = "hooks"
    /\ IF HooksAllowed(git_initialized_successfully)
       THEN \E beh \in MainBehaviours, sys \in Systems, probe \in Probes :
               LET r == run_command(<<"pre-commit", "install">>, TRUE, beh, sys, probe)
               IN  /\ HostIsRead(<<"pre-commit", "install">>, beh) \/ (sys = AnySystem /\ probe = AnyProbe)
                   /\ cmds' = Append(cmds, Cmd(<<"pre-commit", "install">>, r))
                   /\ out' = out \o <<"Attempting to install pre-commit hooks...">> \o r.out
                                 \o (IF r.raised THEN <<"Traceback">>
                                     ELSE IF r.success THEN <<>>
                                     ELSE <<"Error Detail: Failed during pre-commit install step.">>)
                   /\ pc' = IF r.raised THEN "crashed" ELSE "add"
       ELSE /\ pc' = "add"
            /\ UNCHANGED <<cmds, out>>
    /\ UNCHANGED <<fs, run, project_name, git_initialized_successfully, is_git_repo,
                   calls, emptyAtStart, prev_name, git_inited, rc_in, rc_out>>

\* main, lines 907-911: "git add ."; its outcome is ignored
GitAdd ==
    /\ pc = "add"
    /\ IF git_initialized_successfully
       THEN \E beh \in MainBehaviours :
               LET r == run_command(<<"git", "add", ".">>, TRUE, beh, AnySystem, AnyProbe) IN
               /\ cmds' = Append(cmds, Cmd(<<"git", "add", ".">>, r))
               /\ out' = out \o <<"Adding files to Git...">> \o r.out \o <<"Files added to Git.">>
       ELSE UNCHANGED <<cmds, out>>
    /\ pc' = "final"
    /\ UNCHANGED <<fs, run, project_name, git_initialized_successfully, is_git_repo,
                   calls, emptyAtStart, prev_name, git_inited, rc_in, rc_out>>

\* main, lines 914-928: the summary; main returns and the exit status is 0
Finish ==
    /\ pc = "final"
    /\ out' = out \o <<"--- Project Setup Complete! ---", "Next Steps:">>
    /\ pc' = "done"
    /\ UNCHANGED <<fs, run, project_name, git_initialized_successfully, is_git_repo,
                   calls, cmds, emptyAtStart, prev_name, git_inited, rc_in, rc_out>>

Next ==
    \/ StartRun
    \/ CreateDirectoryStructure
    \/ CreateEntryPoint
    \/ CreateDirs
    \/ CreateConfigFiles
    \/ CreateRootFiles
    \/ GitInit
    \/ PreCommitInstall
    \/ GitAdd
    \/ Finish

Spec == Init /\ [][Next]_vars

\* ------------------------------------------- run_command called on its own
RcInputs ==
    [command : {<<"git", "init">>, <<"pre-commit", "install">>, <<"hatch", "build">>},
     check : BOOLEAN, beh : Behaviours, system : Systems, probe : Probes]

InitRc ==
    /\ fs = EmptyTarget
    /\ pc = "rc_call"
    /\ run = 0
    /\ project_name = <<>>
    /\ git_initialized_successfully = FALSE
    /\ is_git_repo = FALSE
    /\ calls = <<>>
    /\ cmds = <<>>
    /\ out = <<>>
    /\ emptyAtStart = (fs = EmptyTarget)
    /\ prev_name = <<>>
    /\ git_inited = FALSE
    /\ rc_in \in RcInputs
    /\ rc_out = NoOutcome

RunCommandCall ==
    /\ pc = "rc_call"
    /\ rc_out' = run_command(rc_in.command, rc_in.check, rc_in.beh, rc_in.system, rc_in.probe)
    /\ pc' = "rc_returned"
    /\ UNCHANGED <<fs, run, project_name, git_initialized_successfully, is_git_repo,
                   calls, cmds, out, emptyAtStart, prev_name, git_inited, rc_in>>

NextRc == RunCommandCall

SpecRc == InitRc /\ [][NextRc]_vars

\* ------------------------------------------------------------------ claims
ScaffoldDone == pc \in {"git", "hooks", "add", "final", "done", "crashed"}
               /\ \E k \in 1..Len(calls) : calls[k].op = "create_file"

IsCmd(c, command) == Len(c.command) = Len(command) /\ c.command = command

\* C1: a run with the project name of the run before it changes nothing the
\* scaffold writes: after every step of such a run each file and directory
\* is exactly as the earlier run left it (the repository directory .git
\* belongs to git, not to the scaffold).
SameButGit(f, g) ==
    \A q \in ((DOMAIN f) \cup (DOMAIN g)) \ {GitDir} :
        q \in DOMAIN f /\ q \in DOMAIN g /\ f[q] = g[q]

C1_SecondRunSameContent ==
    [][(run >= 2 /\ run' = run /\ project_name = prev_name) => SameButGit(fs, fs')]_vars

C1_Witness ==
    /\ run = 2 /\ pc = "done" /\ project_name = prev_name
    /\ PathExists(fs, EntryPointPath(project_name))
    /\ \E k \in 1..Len(calls) : calls[k].op = "create_file" /\ calls[k].ok
    /\ \E k \in 1..Len(calls) : calls[k].op = "tree" /\ calls[k].ok

\* C2: a README.md or .gitignore file at the project root is never changed
\* by any step of any run: the two root artifacts are written only when
\* nothing exists at their path.
C2_RootArtifactsKept ==
    [][\A p \in {RootReadme, RootGitignore} :
          IsFileAt(fs, p) => (IsFileAt(fs', p) /\ fs'[p] = fs[p])]_vars

C2_Witness ==
    /\ run = 2 /\ pc = "done"
    /\ IsFileAt(fs, RootReadme) /\ fs[RootReadme].content = <<"user readme">>
    /\ IsFileAt(fs, RootGitignore) /\ fs[RootGitignore].content # <<"user ignore">>
    /\ \E k \in 1..Len(calls) : calls[k].op = "create_file" /\ calls[k].ok

\* C3: run_command returns the ExecutableNotFound outcome exactly when the
\* executable cannot be located; every other failure to launch is returned
\* as Unexpected.
C3_NotFoundOnlyForMissingExecutable ==
    (pc = "rc_returned" /\ ~rc_out.raised)
        => /\ (FailureKind(rc_out) = "ExecutableNotFound") <=> (rc_in.beh.launch = "no_executable")
           /\ rc_in.beh.launch \in {"no_cwd", "os_error"} => FailureKind(rc_out) = "Unexpected"

\* C4: run_command always returns to its caller; no exception leaves it,
\* also not while it prints the remediation plan for a missing pre-commit.
C4_NoExceptionEscapes == pc = "rc_returned" => ~rc_out.raised

\* C5: "pre-commit install" is invoked only if .git was a directory when the
\* run checked it or "git init" succeeded earlier in the run; after a failed
\* "git init" it is never invoked in that run.
C5_HooksOnlyAfterGit ==
    /\ \A i \in 1..Len(cmds) :
          IsCmd(cmds[i], <<"pre-commit", "install">>)
             => \/ is_git_repo
                \/ \E j \in 1..(i - 1) : IsCmd(cmds[j], <<"git", "init">>) /\ cmds[j].kind = "None"
    /\ (\E j \in 1..Len(cmds) : IsCmd(cmds[j], <<"git", "init">>) /\ cmds[j].kind # "None")
          => \A i \in 1..Len(cmds) : ~IsCmd(cmds[i], <<"pre-commit", "install">>)

C5_Witness ==
    /\ pc = "done" /\ Len(cmds) = 3
    /\ IsCmd(cmds[1], <<"git", "init">>) /\ cmds[1].kind = "None"
    /\ IsCmd(cmds[2], <<"pre-commit", "install">>)

\* C6: whatever fails, no run ends early: every run reaches the final
\* summary and exit status 0.
C6_NoRunEndsEarly == pc # "crashed"

\* C7: when an artifact of the tree fails with a filesystem error, every
\* other artifact of the tree and every later root artifact is still
\* attempted before the run ends.
C7_LaterArtifactsAttempted ==
    (pc \in {"done", "crashed"} /\ \E k \in 1..Len(calls) : calls[k].op = "tree" /\ ~calls[k].ok)
        => /\ \A i \in 1..Len(Its) :
                 \E k \in 1..Len(calls) : calls[k].op = "tree" /\ calls[k].path = Its[i].current_path
           /\ \E k \in 1..Len(calls) :
                 calls[k].op = "create_file" /\ calls[k].path = Append(project_root, S("pyproject.toml"))

\* C8: the entry point src/<p>/main.py holds its template with p in place of
\* every project-name placeholder, and no file that create_file has written
\* holds an unsubstituted {project_name}.
C8_PlaceholdersSubstituted ==
    \A k \in 1..Len(calls) :
        (calls[k].op = "create_file" /\ calls[k].ok)
            => LET r == Resolve(fs, calls[k].path) IN
               /\ IsFileAt(fs, r.phys)
               /\ PH_NAME \notin Range(fs[r.phys].content)
               /\ calls[k].path = EntryPointPath(project_name)
                     => fs[r.phys].content =
                           CreateFileContent(Render(entry_point_content, Context(project_name)))

\* C9: after the tree is materialized into an empty directory, every key
\* that names a file (README.md, *.py) is a regular file holding its body,
\* every nested mapping is a directory, and nothing else was created.
FileKeys == {S("README.md"), S("container.py"), S("logging_config.py"), S("custom_button.py"),
             S("navigation_mediator.py"), S("main_screen.py"), S("secondary_screen.py"),
             S("main_window.py")}

C9_LeavesMatchTree ==
    (pc = "entry" /\ emptyAtStart)
        => /\ \A i \in 1..Len(Its) :
                 LET r == Resolve(fs, Its[i].current_path) IN
                 /\ Its[i].isdict => IsDirAt(fs, r.phys)
                 /\ Its[i].name \in FileKeys
                       => IsFileAt(fs, r.phys) /\ fs[r.phys].content = Its[i].content
           /\ \A q \in (DOMAIN fs) \ (DOMAIN EmptyTarget) :
                 \E i \in 1..Len(Its) :
                    \/ Resolve(fs, Its[i].current_path).phys = q
                    \/ /\ ~Its[i].isdict /\ Its[i].name \notin FileKeys
                       /\ Resolve(fs, Append(Its[i].current_path, S("README.md"))).phys = q

\* C10: a file whose body still references a placeholder is not written:
\* MissingBinding is reported and nothing exists at its path.
C10_UnboundNotWritten ==
    \A k \in 1..Len(calls) :
        (calls[k].op = "create_file" /\ calls[k].unbound)
            => /\ ~PathExists(fs, calls[k].path)
               /\ "MissingBinding" \in Range(out)

\* C11: when the executable is not found, run_command prints the whole
\* four-step remediation plan if and only if the command is "pre-commit";
\* for every other command it prints only the short not-found message; and
\* it returns (False, None), a result that holds no remediation text.
FullPlan(lines) == {"STEP 1", "STEP 2", "STEP 3", "STEP 4"} \subseteq Range(lines)

C11_PlanOnlyForPreCommit ==
    (pc = "rc_returned" /\ rc_in.beh.launch = "no_executable")
        => /\ FullPlan(rc_out.out) <=> (rc_in.command[1] = "pre-commit")
           /\ rc_in.command[1] # "pre-commit" => Len(rc_out.out) <= 3
           /\ ~rc_out.raised /\ ~rc_out.success /\ rc_out.result = NoResult

\* C12: a command that runs and exits with status k # 0 under check = true
\* is returned as NonZeroExit: the result holds exactly k and the stdout and
\* stderr the process wrote.
C12_NonZeroExitKeepsCode ==
    (pc = "rc_returned" /\ rc_in.beh.launch = "ran" /\ rc_in.check /\ rc_in.beh.rc # 0)
        => /\ ~rc_out.raised
           /\ FailureKind(rc_out) = "NonZeroExit"
           /\ rc_out.result.returncode = rc_in.beh.rc
           /\ rc_out.result.stdout = rc_in.beh.stdout
           /\ rc_out.result.stderr = rc_in.beh.stderr

C12_Witness ==
    /\ pc = "rc_returned" /\ rc_in.beh.launch = "ran" /\ rc_in.check
    /\ rc_in.beh.rc = 2 /\ rc_in.beh.stdout = "text" /\ rc_in.beh.stderr = ""
    /\ rc_out.result.type = "CalledProcessError" /\ rc_out.result.returncode = 2

\* C13: a command that runs to completion is a success whenever it exits
\* with 0 or check is false; with check false a non-zero status is a success
\* too, and the result holds the status as it was.
C13_SuccessUnlessChecked ==
    (pc = "rc_returned" /\ rc_in.beh.launch = "ran" /\ (rc_in.beh.rc = 0 \/ ~rc_in.check))
        => /\ ~rc_out.raised
           /\ rc_out.success
           /\ FailureKind(rc_out) = "None"
           /\ rc_out.result.type = "CompletedProcess"
           /\ rc_out.result.returncode = rc_in.beh.rc

C13_Witness ==
    /\ pc = "rc_returned" /\ rc_in.beh.launch = "ran" /\ ~rc_in.check
    /\ rc_in.beh.rc = 2 /\ rc_out.success /\ rc_out.result.returncode = 2

\* C14: when .git is a directory at the moment main checks it, that run
\* does not invoke "git init", counts the initialization as done and goes
\* on to the hook installation, which it attempts; once a "git init" has
\* succeeded, no later run invokes "git init" again.
HasCmd(command) == \E i \in 1..Len(cmds) : IsCmd(cmds[i], command)

C14_ExistingRepoNotReinitialised ==
    /\ [][(pc = "git" /\ (PathIsDir(fs, GitDir) \/ git_inited))
             => (cmds' = cmds /\ git_initialized_successfully' /\ pc' = "hooks")]_vars
    /\ []((is_git_repo /\ pc \in {"add", "final", "done", "crashed"})
             => (HasCmd(<<"pre-commit", "install">>) /\ ~HasCmd(<<"git", "init">>)))

C14_Witness ==
    /\ run = 2 /\ pc = "done" /\ git_inited /\ is_git_repo
    /\ HasCmd(<<"pre-commit", "install">>) /\ ~HasCmd(<<"git", "init">>)

\* C15: a run changes no file other than the ones the scaffold itself
\* writes: every other file, such as a user's notes inside a directory of
\* the tree, stays with its content; and a directory of the tree that
\* already exists is kept and never makes its iteration fail.
UserNotes == project_root \o <<S("tests"), S("01_config"), S("notes.txt")>>

ScaffoldFilePaths ==
    LET its == Its IN
    {Append(its[i].current_path, S("README.md")) : i \in {j \in 1..Len(its) : ~its[j].isdict}}
    \cup {EntryPointPath(project_name), RootReadme, RootGitignore,
          Append(project_root, S("pyproject.toml")),
          Append(project_root, S(".pre-commit-config.yaml")),
          project_root \o <<S("docs"), S("README.md")>>,
          project_root \o <<S("tests"), S("__init__.py")>>}

C15_UnrelatedFilesKept ==
    [][run' = run =>
         /\ fs' # fs =>
               /\ LET changed == {q \in DOMAIN fs :
                                     IsFileAt(fs, q) /\ (q \notin DOMAIN fs' \/ fs'[q] # fs[q])}
                  IN  changed # {}
                         => changed \subseteq {Resolve(fs', p).phys : p \in ScaffoldFilePaths}
               /\ \A q \in DOMAIN fs : IsDirAt(fs, q) => IsDirAt(fs', q)
         /\ pc = "tree" =>
               \A k \in 1..Len(calls') :
                  (calls'[k].op = "tree" /\ ~calls'[k].ok) => ~PathIsDir(fs, calls'[k].path)]_vars

C15_Witness ==
    /\ run = 1 /\ pc = "done"
    /\ IsFileAt(fs, UserNotes) /\ fs[UserNotes].content = <<"user notes">>
    /\ IsFileAt(fs, project_root \o <<S("tests"), S("01_config"), S("README.md")>>)
    /\ \E k \in 1..Len(calls) :
          calls[k].op = "tree" /\ calls[k].ok /\ calls[k].path = Parent(UserNotes)

\* C16: printing the pre-commit instructions starts no process on any
\* platform, and what it prints and whether it returns is the same whatever
\* a "python --version" on the host would do.
C16_AdvisorIsPure ==
    (pc = "rc_returned" /\ HostIsRead(rc_in.command, rc_in.beh))
        => /\ ~ProbeLaunched(rc_in.system)
           /\ \A probe \in Probes :
                 print_precommit_install_instructions(rc_in.system, probe)
                    = print_precommit_install_instructions(rc_in.system, rc_in.probe)
           /\ ~print_precommit_install_instructions(rc_in.system, rc_in.probe).raised

\* C17: a project name that is not a valid identifier makes main print a
\* warning before the tree is created, and the run goes on with that name;
\* a valid identifier brings no such warning.
IdentifierChunks == {"demo_app", "my", "_", "proj"}

IsIdentifier(name) == name # <<>> /\ \A i \in 1..Len(name) : name[i] \in IdentifierChunks

C17_InvalidNameWarned ==
    (run >= 1 /\ pc # "idle")
        => (("Warning: not a valid identifier" \in Range(out)) <=> ~IsIdentifier(project_name))

\* C18: the plan holds STEP 1, STEP 2, STEP 3, STEP 4 in this order; on
\* Windows its blocks are the environment-variable editor and "Scripts", on
\* Linux and Darwin the shell config file and "bin"; on any other platform
\* it holds no block and no subdirectory name of Windows or of Unix.
Pos(lines, x) == CHOOSE i \in 1..Len(lines) : lines[i] = x

WindowsBlocks == {"where.exe python", "Scripts", "1b:environment-variables", "1c:as-administrator"}
UnixBlocks == {"which python3", "bin", "1b:shell-config", "1c:sudo"}

C18_PlanMatchesPlatform ==
    (pc = "rc_returned" /\ rc_in.command[1] = "pre-commit"
        /\ rc_in.beh.launch = "no_executable" /\ ~rc_out.raised)
        => LET lines == rc_out.out IN
           /\ FullPlan(lines)
           /\ Pos(lines, "STEP 1") < Pos(lines, "STEP 2")
           /\ Pos(lines, "STEP 2") < Pos(lines, "STEP 3")
           /\ Pos(lines, "STEP 3") < Pos(lines, "STEP 4")
           /\ rc_in.system = "Windows"
                 => (WindowsBlocks \subseteq Range(lines) /\ UnixBlocks \cap Range(lines) = {})
           /\ IsUnix(rc_in.system)
                 => (UnixBlocks \subseteq Range(lines) /\ WindowsBlocks \cap Range(lines) = {})
           /\ (rc_in.system # "Windows" /\ ~IsUnix(rc_in.system))
                 => (WindowsBlocks \cup UnixBlocks) \cap Range(lines) = {}

\* C19: whatever project name is typed, every directory and every file that
\* exists after any step of a run lies in the subtree of the project root:
\* no run creates anything outside it.
InsideProjectRoot(q) == Len(q) >= Len(project_root) /\ SubSeq(q, 1, Len(project_root)) = project_root

C19_WritesStayInsideRoot ==
    \A q \in DOMAIN fs : q = <<>> \/ InsideProjectRoot(q)

====
